---- MODULE Spec2Model ----
(***************************************************************************)
(* Model of the HR backend of src/index.js: an Express application with    *)
(* two Mongoose collections (employees, vehicles).  Every route handler is *)
(* an action; a handler that awaits the store more than once (add-points:  *)
(* findById then save; GET /vehicles: find then populate) is split at its  *)
(* awaits, so that other requests can run in between, as the event loop    *)
(* allows.  Timestamps (createdAt, updatedAt, pointsHistory.date) are not  *)
(* modelled.                                                               *)
(***************************************************************************)
EXTENDS Integers, Sequences, FiniteSets, TLC

\* ---- bounds ------------------------------------------------------------
\* number of ObjectIds the store hands out
MaxId == 2
\* number of HTTP requests received
MaxRequests == 4
\* number of requests suspended at an await at the same time
MaxInflight == 2

\* ---- JSON values of request bodies -------------------------------------
JUndef == [t |-> "undefined", n |-> 0, s |-> ""]
JNum(x) == [t |-> "number", n |-> x, s |-> ""]
JStr(x) == [t |-> "string", n |-> 0, s |-> x]

\* ---- identifiers (req.params.id) ---------------------------------------
\* An identifier is a string; len is its length, hex says whether it is made
\* of hexadecimal digits only, key is the ObjectId it casts to.
Oid(k) == [len |-> 24, hex |-> TRUE, key |-> k]
\* a 12 character string: a valid ObjectId that the store never generated
TwelveChars == [len |-> 12, hex |-> FALSE, key |-> 0]
TooShort == [len |-> 3, hex |-> TRUE, key |-> 0]
NotHex == [len |-> 24, hex |-> FALSE, key |-> 0]
IdInputs == {Oid(k) : k \in 1..MaxId} \cup {TwelveChars, TooShort, NotHex}

\* a check of the type only
isValidAnyString(id) == id.len > 0

\* mongoose.Types.ObjectId.isValid on a string
isValid(id) == (id.len = 24 /\ id.hex) \/ id.len = 12

\* ---- employee schema ---------------------------------------------------
RequiredFields ==
  {"staffNumber", "fullName", "identityNumber", "qualifications", "position", "salary"}

\* the `required: true` validator: fails on undefined and on the empty string
Required(v) == v.t # "undefined" /\ ~(v.t = "string" /\ v.s = "")

StaffNumbers == {"E001", "E002"}
Names == {"A", "B"}

FullBody(sn, fn) ==
  [staffNumber |-> JStr(sn), fullName |-> JStr(fn), identityNumber |-> JStr("1"),
   qualifications |-> JStr("BSc"), position |-> JStr("Clerk"), salary |-> JNum(1000),
   points |-> JUndef]

\* the bodies POST /employees is tried with: complete ones, one with an
\* explicit points value, and ones with one required field left out
EmployeeBodies ==
  {FullBody(sn, "A") : sn \in StaffNumbers}
    \cup {[FullBody("E001", "A") EXCEPT !.points = JNum(1)]}
    \cup {[FullBody("E001", "A") EXCEPT ![f] = JUndef] : f \in RequiredFields}
    \cup {[FullBody("E002", "B") EXCEPT !.fullName = JStr("")]}

\* Document validation run by save(): every required path is present
validateEmployee(body) == \A f \in RequiredFields : Required(body[f])

\* new Employee(req.body): the schema defaults fill points and pointsHistory
newEmployee(body) ==
  [staffNumber |-> body.staffNumber, fullName |-> body.fullName,
   identityNumber |-> body.identityNumber, qualifications |-> body.qualifications,
   position |-> body.position, salary |-> body.salary,
   points |-> IF body.points.t = "number" THEN body.points.n ELSE 0,
   pointsHistory |-> << >>]

\* a PUT payload: any subset of the paths below ($set by findByIdAndUpdate)
NoHistory == [t |-> "undefined", a |-> << >>]
HistoryOf(seq) == [t |-> "array", a |-> seq]
PutBody(sn, fn, pts, hist) ==
  [staffNumber |-> sn, fullName |-> fn, points |-> pts, pointsHistory |-> hist]
PutBodies ==
  {PutBody(JStr(sn), JUndef, JUndef, NoHistory) : sn \in StaffNumbers}
    \cup {PutBody(JUndef, JStr("B"), JUndef, NoHistory),
          PutBody(JUndef, JUndef, JNum(0), NoHistory),
          PutBody(JUndef, JUndef, JUndef, HistoryOf(<< >>))}

\* the payloads the vehicle scenarios create and rename drivers with
DriverBodies == {FullBody(sn, "A") : sn \in StaffNumbers}
RenameBodies == {PutBody(JUndef, JStr(fn), JUndef, NoHistory) : fn \in Names}

\* ---- vehicle schema ----------------------------------------------------
Vins == {"V1", "V2"}
VehicleRequired == {"vin", "model", "mileage"}
\* the driver path of a payload: absent, or a string to be cast to ObjectId
NoDriver == [t |-> "undefined", id |-> TooShort]
DriverOf(id) == [t |-> "string", id |-> id]
VehicleBody(vin, d) ==
  [vin |-> JStr(vin), model |-> JStr("Hilux"), mileage |-> JNum(10), driver |-> d]
VehicleBodies ==
  {VehicleBody(v, d) : v \in Vins,
                       d \in {NoDriver, DriverOf(NotHex)} \cup {DriverOf(Oid(k)) : k \in 1..MaxId}}
    \cup {[VehicleBody("V1", NoDriver) EXCEPT ![f] = JUndef] : f \in VehicleRequired}

\* validation run by save(): required paths, and the driver casts to ObjectId
validateVehicle(body) ==
  /\ \A f \in VehicleRequired : Required(body[f])
  /\ body.driver.t = "string" => isValid(body.driver.id)

\* the stored driver: 0 when the path is absent, the ObjectId otherwise
newVehicle(body) ==
  [vin |-> body.vin.s,
   driver |-> IF body.driver.t = "string" THEN body.driver.id.key ELSE 0]

\* ---- add-points payload ------------------------------------------------
\* the { points, reason } payloads add-points is tried with: well-formed ones,
\* ones with a bad points value, ones with a bad reason, one with both
AwardPayload(p, r) == [points |-> p, reason |-> r]
AwardPayloads ==
  {AwardPayload(JNum(1), JStr("good work")), AwardPayload(JNum(2), JStr("late")),
   AwardPayload(JStr("5"), JStr("good work")), AwardPayload(JNum(0), JStr("good work")),
   AwardPayload(JNum(0 - 1), JStr("late")),
   AwardPayload(JNum(1), JUndef), AwardPayload(JNum(2), JStr("")),
   AwardPayload(JNum(1), JNum(7)),
   AwardPayload(JNum(0), JStr(""))}

\* the type check without the sign check
validPointsTypeOnly(points) == points.t = "number"

\* typeof points !== 'number' || points <= 0   (negated)
validPoints(points) == points.t = "number" /\ points.n > 0
\* !reason || typeof reason !== 'string'   (negated); !reason holds for
\* undefined, the empty string and the number 0
validReason(reason) == reason.t = "string" /\ reason.s # ""

\* ---- state -------------------------------------------------------------
VARIABLES
  employees,  \* the employees collection: _id -> document
  vehicles,   \* the vehicles collection, in insertion order
  nextId,     \* the next ObjectId the store generates
  nreq,       \* number of requests received so far
  awarding,   \* add-points requests suspended at `await employee.save()`
  finding,    \* GET /vehicles requests suspended at populate()
  last,       \* the response sent last, with what its request did
  before,     \* the collections as they were before the step that answered
  awarded,    \* history variable: per _id, the awards answered 200, in order
  pristine,   \* history variable: per _id, created with points 0 and empty
              \* history and changed by add-points only since
  serial      \* history variable: per _id, no two add-points requests to it
              \* were in flight at the same time

vars == <<employees, vehicles, nextId, nreq, awarding, finding, last, before,
          awarded, pristine, serial>>

Keys == 1..MaxId

NoListing == << >>

Resp(op, id, status, msg, reads, writes) ==
  [op |-> op, id |-> id, status |-> status, msg |-> msg,
   reads |-> reads, writes |-> writes,
   points |-> JUndef, reason |-> JUndef, staffNumber |-> JUndef,
   valid |-> TRUE, missing |-> {}, listing |-> NoListing]

Store == [employees |-> employees, vehicles |-> vehicles]

Init ==
  /\ employees = << >>
  /\ vehicles = << >>
  /\ nextId = 1
  /\ nreq = 0
  /\ awarding = << >>
  /\ finding = << >>
  /\ last = Resp("none", TooShort, 0, "", 0, 0)
  /\ before = [employees |-> << >>, vehicles |-> << >>]
  /\ awarded = [k \in Keys |-> << >>]
  /\ pristine = [k \in Keys |-> FALSE]
  /\ serial = [k \in Keys |-> TRUE]

Inflight == Cardinality(DOMAIN awarding) + Cardinality(DOMAIN finding)

\* remove x from the domain of f
Without(f, x) == [y \in DOMAIN f \ {x} |-> f[y]]

\* ---- the store ----------------------------------------------------------
\* a collection without the index
duplicateKeyNoIndex(emps, sn, self) == FALSE

\* the unique index on staffNumber: another document already holds sn
duplicateKey(emps, sn, self) ==
  \E k \in DOMAIN emps : k # self /\ emps[k].staffNumber = sn

\* the unique index on vin
duplicateVin(vs, vin) == \E i \in 1..Len(vs) : vs[i].vin = vin

\* the same update with { upsert: true }
findByIdAndUpdateUpsert(emps, k, body) ==
  IF k \in DOMAIN emps
  THEN [emps EXCEPT ![k] =
         [@ EXCEPT
            !.staffNumber = IF body.staffNumber.t = "undefined" THEN @ ELSE body.staffNumber,
            !.fullName = IF body.fullName.t = "undefined" THEN @ ELSE body.fullName,
            !.points = IF body.points.t = "number" THEN body.points.n ELSE @,
            !.pointsHistory = IF body.pointsHistory.t = "array" THEN body.pointsHistory.a ELSE @]]
  ELSE emps @@ (k :> [staffNumber |-> body.staffNumber, fullName |-> body.fullName,
                      identityNumber |-> JUndef, qualifications |-> JUndef,
                      position |-> JUndef, salary |-> JUndef,
                      points |-> 0, pointsHistory |-> << >>])

\* Employee.findByIdAndUpdate(id, req.body, { new: true }): $set of the paths
\* the payload names on the document with that _id, if there is one
findByIdAndUpdate(emps, k, body) ==
  IF k \in DOMAIN emps
  THEN [emps EXCEPT ![k] =
         [@ EXCEPT
            !.staffNumber = IF body.staffNumber.t = "undefined" THEN @ ELSE body.staffNumber,
            !.fullName = IF body.fullName.t = "undefined" THEN @ ELSE body.fullName,
            !.points = IF body.points.t = "number" THEN body.points.n ELSE @,
            !.pointsHistory = IF body.pointsHistory.t = "array" THEN body.pointsHistory.a ELSE @]]
  ELSE emps

\* Employee.findByIdAndDelete(id)
findByIdAndDelete(emps, k) == IF k \in DOMAIN emps THEN Without(emps, k) ELSE emps

\* `=` written for `+=`
addPointsAssign(employee, points, reason) ==
  [employee EXCEPT !.points = points,
                   !.pointsHistory = Append(@, [points |-> points, reason |-> reason])]

\* employee.points += points; employee.pointsHistory.push({ points, reason })
\* on the document that findById returned
addPoints(employee, points, reason) ==
  [employee EXCEPT !.points = @ + points,
                   !.pointsHistory = Append(@, [points |-> points, reason |-> reason])]

\* employee.save() of a document whose points path was assigned and whose
\* pointsHistory array was pushed to: $set of points, $push of the new entry
save(emps, k, employee) ==
  [emps EXCEPT ![k].points = employee.points,
               ![k].pointsHistory =
                  Append(@, employee.pointsHistory[Len(employee.pointsHistory)])]

\* populate('driver', 'staffNumber')
populateStaffNumber(emps, d) ==
  IF d = 0 THEN [t |-> "undefined", fullName |-> ""]
  ELSE IF d \in DOMAIN emps THEN [t |-> "doc", fullName |-> emps[d].staffNumber.s]
  ELSE [t |-> "null", fullName |-> ""]

\* populate('driver', 'fullName') of one stored driver reference
populate(emps, d) ==
  IF d = 0 THEN [t |-> "undefined", fullName |-> ""]
  ELSE IF d \in DOMAIN emps THEN [t |-> "doc", fullName |-> emps[d].fullName.s]
  ELSE [t |-> "null", fullName |-> ""]

\* ---- GET /employees ----------------------------------------------------
ListEmployees ==
  /\ nreq < MaxRequests
  /\ nreq' = nreq + 1
  /\ before' = Store
  /\ last' = Resp("GET /employees", TooShort, 200, "", 1, 0)
  /\ UNCHANGED <<employees, vehicles, nextId, awarding, finding, awarded, pristine, serial>>

\* ---- POST /employees ---------------------------------------------------
CreateEmployee(body) ==
  /\ nreq < MaxRequests
  /\ nreq' = nreq + 1
  /\ before' = Store
  /\ IF ~validateEmployee(body)
     THEN \* ValidationError has no code: falls through to the 500 answer
          /\ last' = [Resp("POST /employees", TooShort, 500, "Failed to save employee", 0, 0)
                        EXCEPT !.staffNumber = body.staffNumber, !.valid = FALSE,
                               !.missing = {f \in RequiredFields : body[f].t = "undefined"}]
          /\ UNCHANGED <<employees, nextId, pristine>>
     ELSE IF duplicateKey(employees, body.staffNumber, 0)
     THEN \* error.code === 11000
          /\ last' = [Resp("POST /employees", TooShort, 400, "Staff number must be unique", 0, 1)
                        EXCEPT !.staffNumber = body.staffNumber]
          /\ UNCHANGED <<employees, nextId, pristine>>
     ELSE /\ nextId <= MaxId
          /\ employees' = employees @@ (nextId :> newEmployee(body))
          /\ nextId' = nextId + 1
          /\ pristine' = [pristine EXCEPT ![nextId] = (newEmployee(body).points = 0)]
          /\ last' = [Resp("POST /employees", Oid(nextId), 201, "", 0, 1)
                        EXCEPT !.staffNumber = body.staffNumber]
  /\ UNCHANGED <<vehicles, awarding, finding, awarded, serial>>

\* ---- PUT /employees/:id ------------------------------------------------
UpdateEmployee(id, body) ==
  /\ nreq < MaxRequests
  /\ nreq' = nreq + 1
  /\ before' = Store
  /\ IF ~isValid(id)
     THEN /\ last' = [Resp("PUT /employees/:id", id, 400, "Invalid employee ID", 0, 0)
                        EXCEPT !.staffNumber = body.staffNumber]
          /\ UNCHANGED <<employees, pristine>>
     ELSE IF id.key \in DOMAIN employees /\ body.staffNumber.t # "undefined"
             /\ duplicateKey(employees, body.staffNumber, id.key)
     THEN \* the duplicate-key error is not told apart in this handler
          /\ last' = [Resp("PUT /employees/:id", id, 500, "Error updating employee", 0, 1)
                        EXCEPT !.staffNumber = body.staffNumber]
          /\ UNCHANGED <<employees, pristine>>
     ELSE /\ employees' = findByIdAndUpdate(employees, id.key, body)
          /\ IF id.key \in DOMAIN employees'
             THEN /\ last' = [Resp("PUT /employees/:id", id, 200, "", 0, 1)
                                EXCEPT !.staffNumber = body.staffNumber]
                  /\ pristine' =
                       IF id.key \in Keys
                          /\ (body.points.t # "undefined" \/ body.pointsHistory.t # "undefined")
                       THEN [pristine EXCEPT ![id.key] = FALSE]
                       ELSE pristine
             ELSE /\ last' = [Resp("PUT /employees/:id", id, 404, "Employee not found", 0, 1)
                                EXCEPT !.staffNumber = body.staffNumber]
                  /\ UNCHANGED pristine
  /\ UNCHANGED <<vehicles, nextId, awarding, finding, awarded, serial>>

\* ---- DELETE /employees/:id ---------------------------------------------
DeleteEmployee(id) ==
  /\ nreq < MaxRequests
  /\ nreq' = nreq + 1
  /\ before' = Store
  /\ IF ~isValid(id)
     THEN /\ last' = Resp("DELETE /employees/:id", id, 400, "Invalid employee ID", 0, 0)
          /\ UNCHANGED employees
     ELSE /\ employees' = findByIdAndDelete(employees, id.key)
          /\ last' = IF id.key \in DOMAIN employees
                     THEN Resp("DELETE /employees/:id", id, 200, "Employee deleted successfully", 0, 1)
                     ELSE Resp("DELETE /employees/:id", id, 404, "Employee not found", 0, 1)
  /\ UNCHANGED <<vehicles, nextId, awarding, finding, awarded, pristine, serial>>

\* ---- PATCH /employees/:id/add-points ------------------------------------
\* the handler up to and including `await Employee.findById(id)`
AddPointsFind(id, points, reason) ==
  /\ nreq < MaxRequests
  /\ nreq' = nreq + 1
  /\ LET op == "PATCH /employees/:id/add-points"
         answer(status, msg, reads) ==
           [Resp(op, id, status, msg, reads, 0) EXCEPT !.points = points, !.reason = reason]
     IN
     IF ~isValid(id)
     THEN /\ last' = answer(400, "Invalid employee ID", 0)
          /\ before' = Store
          /\ UNCHANGED <<awarding, serial>>
     ELSE IF ~validPoints(points)
     THEN /\ last' = answer(400, "Points must be a positive number", 0)
          /\ before' = Store
          /\ UNCHANGED <<awarding, serial>>
     ELSE IF ~validReason(reason)
     THEN /\ last' = answer(400, "Reason for points is required", 0)
          /\ before' = Store
          /\ UNCHANGED <<awarding, serial>>
     ELSE IF id.key \notin DOMAIN employees
     THEN /\ last' = answer(404, "Employee not found", 1)
          /\ before' = Store
          /\ UNCHANGED <<awarding, serial>>
     ELSE /\ Inflight < MaxInflight
          /\ awarding' = awarding @@
               (nreq + 1 :> [id |-> id, points |-> points, reason |-> reason,
                             employee |-> addPoints(employees[id.key], points.n, reason.s)])
          /\ serial' = IF \E r \in DOMAIN awarding : awarding[r].id = id
                       THEN [serial EXCEPT ![id.key] = FALSE]
                       ELSE serial
          /\ UNCHANGED <<last, before>>
  /\ UNCHANGED <<employees, vehicles, nextId, finding, awarded, pristine>>

\* `await employee.save()` and the answer
AddPointsSave(r) ==
  /\ r \in DOMAIN awarding
  /\ LET a == awarding[r]
         op == "PATCH /employees/:id/add-points"
         answer(status, msg) ==
           [Resp(op, a.id, status, msg, 1, 1)
              EXCEPT !.points = a.points, !.reason = a.reason]
     IN
     /\ before' = Store
     /\ IF a.id.key \in DOMAIN employees
        THEN /\ employees' = save(employees, a.id.key, a.employee)
             /\ awarded' = [awarded EXCEPT ![a.id.key] =
                              Append(@, [points |-> a.points.n, reason |-> a.reason.s])]
             /\ last' = answer(200, "Points added successfully")
        ELSE \* the document is gone: save() rejects
             /\ last' = answer(500, "Error adding points")
             /\ UNCHANGED <<employees, awarded>>
  /\ awarding' = Without(awarding, r)
  /\ UNCHANGED <<vehicles, nextId, nreq, finding, pristine, serial>>

\* ---- GET /vehicles -----------------------------------------------------
\* Vehicle.find()
ListVehiclesFind ==
  /\ nreq < MaxRequests
  /\ nreq' = nreq + 1
  /\ Inflight < MaxInflight
  /\ finding' = finding @@ (nreq + 1 :> vehicles)
  /\ UNCHANGED <<employees, vehicles, nextId, awarding, last, before, awarded, pristine, serial>>

\* .populate('driver', 'fullName') and the answer; ref is the stored reference
ListVehiclesPopulate(r) ==
  /\ r \in DOMAIN finding
  /\ before' = Store
  /\ last' = [Resp("GET /vehicles", TooShort, 200, "", 2, 0) EXCEPT !.listing =
                [i \in 1..Len(finding[r]) |->
                   [vin |-> finding[r][i].vin, ref |-> finding[r][i].driver,
                    driver |-> populate(employees, finding[r][i].driver)]]]
  /\ finding' = Without(finding, r)
  /\ UNCHANGED <<employees, vehicles, nextId, nreq, awarding, awarded, pristine, serial>>

\* ---- POST /vehicles ----------------------------------------------------
CreateVehicle(body) ==
  /\ nreq < MaxRequests
  /\ nreq' = nreq + 1
  /\ before' = Store
  /\ IF ~validateVehicle(body)
     THEN /\ last' = [Resp("POST /vehicles", TooShort, 500, "Failed to save vehicle", 0, 0)
                        EXCEPT !.valid = FALSE]
          /\ UNCHANGED vehicles
     ELSE IF duplicateVin(vehicles, body.vin.s)
     THEN /\ last' = Resp("POST /vehicles", TooShort, 400, "VIN must be unique", 0, 1)
          /\ UNCHANGED vehicles
     ELSE /\ vehicles' = Append(vehicles, newVehicle(body))
          /\ last' = Resp("POST /vehicles", TooShort, 201, "", 0, 1)
  /\ UNCHANGED <<employees, nextId, awarding, finding, awarded, pristine, serial>>

\* ---- any other route ---------------------------------------------------
UnknownRoute ==
  /\ nreq < MaxRequests
  /\ nreq' = nreq + 1
  /\ before' = Store
  /\ last' = Resp("unknown route", TooShort, 404, "Route not found", 0, 0)
  /\ UNCHANGED <<employees, vehicles, nextId, awarding, finding, awarded, pristine, serial>>

\* the employee API
Next ==
  \/ ListEmployees
  \/ \E body \in EmployeeBodies : CreateEmployee(body)
  \/ \E id \in IdInputs, body \in PutBodies : UpdateEmployee(id, body)
  \/ \E id \in IdInputs : DeleteEmployee(id)
  \/ \E id \in IdInputs, body \in AwardPayloads :
        AddPointsFind(id, body.points, body.reason)
  \/ \E r \in DOMAIN awarding : AddPointsSave(r)
  \/ UnknownRoute

Spec == Init /\ [][Next]_vars

\* the vehicle API, with the employee operations that create, rename and
\* remove the documents a driver reference points to
FleetNext ==
  \/ \E body \in DriverBodies : CreateEmployee(body)
  \/ \E id \in IdInputs, body \in RenameBodies : UpdateEmployee(id, body)
  \/ \E id \in IdInputs : DeleteEmployee(id)
  \/ ListVehiclesFind
  \/ \E r \in DOMAIN finding : ListVehiclesPopulate(r)
  \/ \E body \in VehicleBodies : CreateVehicle(body)

FleetSpec == Init /\ [][FleetNext]_vars

\* ---- properties ---------------------------------------------------------
RECURSIVE SumPoints(_)
SumPoints(h) == IF h = << >> THEN 0 ELSE h[1].points + SumPoints(Tail(h))

IsPrefix(h1, h2) ==
  /\ Len(h1) <= Len(h2)
  /\ \A i \in 1..Len(h1) : h1[i] = h2[i]

PutOp == "PUT /employees/:id"
DeleteOp == "DELETE /employees/:id"
PatchOp == "PATCH /employees/:id/add-points"

\* the identifier is one that ObjectId rejects
Malformed(id) == id.len \notin {12, 24} \/ (id.len = 24 /\ ~id.hex)

\* the payload of the request answered last is one add-points must refuse
BadAward ==
  \/ last.points.t # "number"
  \/ last.points.n <= 0
  \/ last.reason.t # "string"
  \/ last.reason.s = ""

StoreUnchanged == employees = before.employees /\ vehicles = before.vehicles

\* some add-points request to employee k is suspended at save()
AwardInFlight(k) == \E r \in DOMAIN awarding : awarding[r].id.key = k

\* C1: an employee created with points 0 and an empty history, to which
\* add-points requests were applied one after another (no two of them in
\* flight together) and nothing else changed its points, has a points total
\* equal to the sum of the awarded deltas and a history that lists exactly the
\* awards answered 200, in the order of the calls.
AwardsAdditive ==
  \A k \in DOMAIN employees :
    (pristine[k] /\ serial[k]) =>
      /\ employees[k].points = SumPoints(awarded[k])
      /\ Len(employees[k].pointsHistory) = Len(awarded[k])
      /\ \A i \in 1..Len(awarded[k]) : employees[k].pointsHistory[i] = awarded[k][i]

\* two different awards were applied in sequence to one employee
AwardsAdditiveWitness ==
  \E k \in DOMAIN employees :
    /\ pristine[k] /\ serial[k]
    /\ Len(awarded[k]) >= 2
    /\ awarded[k][1] # awarded[k][2]
    /\ employees[k].points = 3

\* C2: whatever the interleaving of the findById and save steps of the
\* add-points requests to one employee, once they have all answered the points
\* total has grown by the sum of the deltas answered 200 and equals the sum of
\* the deltas in the points history.
NoLostUpdate ==
  \A k \in DOMAIN employees :
    (pristine[k] /\ ~AwardInFlight(k)) =>
      /\ employees[k].points = SumPoints(awarded[k])
      /\ employees[k].points = SumPoints(employees[k].pointsHistory)

\* C3: an add-points request with a bad points value or a bad reason is
\* answered 400 without a read or a write of the store, and the collections
\* are as they were.
InvalidAwardRejected ==
  (last.op = PatchOp /\ BadAward) =>
    /\ last.status = 400
    /\ last.reads = 0 /\ last.writes = 0
    /\ StoreUnchanged

\* a bad points value sent for an employee that is stored and has a history
InvalidAwardRejectedWitness ==
  /\ last.op = PatchOp
  /\ last.status = 400
  /\ last.msg = "Points must be a positive number"
  /\ last.id.key \in DOMAIN employees
  /\ employees[last.id.key].pointsHistory # << >>

\* C4: update, delete and add-points answer a malformed identifier with 400
\* "Invalid employee ID" without a read or a write of the store, and the
\* collections are as they were.
MalformedIdRejected ==
  (last.op \in {PutOp, DeleteOp, PatchOp} /\ Malformed(last.id)) =>
    /\ last.status = 400
    /\ last.msg = "Invalid employee ID"
    /\ last.reads = 0 /\ last.writes = 0
    /\ StoreUnchanged

\* a malformed identifier sent to add-points with a payload that would pass,
\* while an employee is stored
MalformedIdRejectedWitness ==
  /\ last.op = PatchOp
  /\ Malformed(last.id)
  /\ ~BadAward
  /\ last.status = 400
  /\ DOMAIN employees # {}

\* C5: update and delete of a well-formed identifier that no stored employee
\* has, and an add-points request with a passing payload whose lookup of such
\* an identifier answers, yield 404 "Employee not found" and leave the
\* collections as they were.
AbsentIdNotFound ==
  LET absent == last.id.key \notin DOMAIN before.employees
      lookup == \/ last.op \in {PutOp, DeleteOp}
                \/ last.op = PatchOp /\ ~BadAward /\ last.writes = 0
  IN (lookup /\ ~Malformed(last.id) /\ absent) =>
       /\ last.status = 404
       /\ last.msg = "Employee not found"
       /\ StoreUnchanged

\* an update sent for an employee that an earlier request deleted
AbsentIdNotFoundWitness ==
  /\ last.op = PutOp
  /\ last.status = 404
  /\ last.id.key \in Keys
  /\ last.id.key < nextId
  /\ DOMAIN employees # {}

\* C6: a create whose payload passes validation and whose staff number a
\* stored employee already has is answered 400 "Staff number must be unique";
\* no record is added and the stored records are as they were.
DuplicateStaffNumberConflict ==
  (/\ last.op = "POST /employees"
   /\ last.missing = {} /\ last.valid
   /\ \E k \in DOMAIN before.employees :
         before.employees[k].staffNumber = last.staffNumber) =>
    /\ last.status = 400
    /\ last.msg = "Staff number must be unique"
    /\ StoreUnchanged

\* a duplicate create refused while an add-points request is suspended
DuplicateStaffNumberConflictWitness ==
  /\ last.op = "POST /employees"
  /\ last.status = 400
  /\ DOMAIN employees # {}
  /\ DOMAIN awarding # {}

\* C7: a create whose payload lacks a required field is answered 400, not
\* 500, and stores no record.
MissingFieldIs400 ==
  (last.op = "POST /employees" /\ last.missing # {}) =>
    /\ last.status = 400
    /\ StoreUnchanged

DuplicateOnUpdateIs400 ==
  (/\ last.op = PutOp
   /\ last.id.key \in DOMAIN before.employees
   /\ \E k \in DOMAIN before.employees :
         k # last.id.key /\ before.employees[k].staffNumber = last.staffNumber) =>
    /\ last.status = 400
    /\ StoreUnchanged

\* C10: in every step, the points history an employee had is a prefix of the
\* points history it has afterwards.
HistoryAppendOnly ==
  [][\A k \in DOMAIN employees \cap DOMAIN employees' :
        IsPrefix(employees[k].pointsHistory, employees'[k].pointsHistory)]_vars

====
